---- MODULE Spec2Model ----
(***************************************************************************)
(* The stale-lease watchdog of the azureeventhub input                     *)
(* (x-pack/filebeat/input/azureeventhub/eph.go and lease.go).              *)
(*                                                                         *)
(* Four kinds of steps are interleaved:                                    *)
(*   - the setup steps of runWithEPH (eph.go 36-120), each of which may    *)
(*     fail and make runWithEPH return the error;                          *)
(*   - the watchdog goroutine of runWithEPH (eph.go 120-160), one step per *)
(*     statement group, with LeaseFixer.GetLeases / getLease /             *)
(*     ReleaseLease (lease.go 56-83) inlined where they are called;        *)
(*   - the event handler registered by runWithEPH (eph.go 78-94);          *)
(*   - the environment: the wall clock, another consumer that re-acquires  *)
(*     a lease in the blob store, cancellation of the worker context.      *)
(*                                                                         *)
(* Time is counted in minutes (the window of eph.go 143 is 30 minutes).    *)
(***************************************************************************)
EXTENDS Integers, Sequences, FiniteSets, TLC

VARIABLES
    \* ---- runWithEPH (eph.go 36-120)
    setup,          \* the setup step runWithEPH is at, or how it returned
    \* ---- watchdog goroutine (eph.go 120-160)
    wpc,            \* position of the goroutine ("notStarted" before the go statement)
    zeroCount,      \* eph.go 121
    observed,       \* len(a.processor.PartitionIDsBeingProcessed()) as last read (eph.go 127)
    leases,         \* the slice GetLeases is filling / has returned (lease.go 58, eph.go 136)
    i,              \* loop index of GetLeases (lease.go 59)
    j,              \* position of the range loop over leases (eph.go 141)
    lastErr,        \* eph.go 140
    \* ---- contexts (eph.go 75)
    workerCtxDone,  \* a.workerCtx is cancelled
    watcherCancelled, \* cancelWatcher() has been called
    \* ---- event handler (eph.go 78-94)
    hpc,            \* position of the handler callback ("returned": it last returned nil)
    \* ---- blob store and wall clock
    store,          \* partition id -> lease blob
    now,            \* time.Now(), in minutes
    acquires,       \* re-acquisitions by other consumers so far
    \* ---- history of the current scan pass and of the cancellation
    idleStreak,     \* idle observations since the last active one or clean pass
    readLog,        \* outcome of every getLease call of this pass, in order
    releaseCalls,   \* every ReleaseLease call of this pass: partition, token, result
    evals,          \* per evaluated lease of this pass: the clock read and the verdict
    cancelledInTick,   \* watcherCtx became done while a tick was in flight
    callsAfterCancel,  \* store calls issued by the watchdog after watcherCtx was done
    ticksAfterCancel,  \* ticks begun after watcherCtx was done
    sleepsAfterCancel  \* poll waits completed after watcherCtx was done

vars == <<setup, wpc, zeroCount, observed, leases, i, j, lastErr, workerCtxDone,
          watcherCancelled, hpc, store, now, acquires,
          idleStreak, readLog, releaseCalls, evals, cancelledInTick,
          callsAfterCancel, ticksAfterCancel, sleepsAfterCancel>>

wvars == <<wpc, zeroCount, observed, leases, i, j, lastErr>>
hvars == <<hpc>>
passHist == <<readLog, releaseCalls, evals>>
cancelHist == <<cancelledInTick, callsAfterCancel, ticksAfterCancel, sleepsAfterCancel>>

-----------------------------------------------------------------------------
\* Program constants

\* eph.go 133: zeroCount > 60
IdleThreshold == 60
\* eph.go 143: time.Now().Add(-30 * time.Minute)
Window == 30

\* Bounds of the model
MaxZeroCount == 62      \* zeroCount is left to grow no further than this
MaxClockAdvance == 1    \* minutes the clock advances during a run
MaxAcquires == 1        \* re-acquisitions by other consumers

\* sl.processor.GetPartitionIDs() (lease.go 57)
PartitionIDs == <<"0", "1">>
NumPartitions == Len(PartitionIDs)

StartTime == Window + 1

\* Checkpoint *persist.Checkpoint (lease.go 30): nil, or a checkpoint with its EnqueueTime
NilCheckpoint == [present |-> FALSE, enqueueTime |-> 0]
Checkpoint(t) == [present |-> TRUE, enqueueTime |-> t]

\* The lease blob of a partition: the JSON body (token, checkpoint) and the
\* blob's lease state (lease.go 28-33, 91-95)
Blob(ckpt) == [token |-> 1, state |-> "leased", checkpoint |-> ckpt]

\* Initial contents of the store, per partition in the order of PartitionIDs.
\* With the clock starting at StartTime = 31: 0 is 31 minutes old, 1 is exactly
\* 30 minutes old (31 once the clock has advanced), StartTime is "now".
StoreScenarios ==
    { <<NilCheckpoint, Checkpoint(0)>>,
      <<Checkpoint(0), Checkpoint(0)>>,
      <<Checkpoint(1), Checkpoint(StartTime)>> }

PidIndex(pid) == CHOOSE n \in 1..NumPartitions : PartitionIDs[n] = pid

\* watcherCtx, cancelWatcher := context.WithCancel(a.workerCtx) (eph.go 75):
\* done when cancelWatcher was called or the parent is done
WatcherCtxDone == workerCtxDone \/ watcherCancelled

\* The process is gone: panic(onEventErr) in the handler (eph.go 91) or a
\* runtime panic in the watchdog goroutine, which has no recover
ProcessDead == hpc = "panicked" \/ wpc = "panicked"

\* a.processor.StartNonBlocking (eph.go 104) has succeeded: from here on the
\* processor delivers events to the registered handler
ProcessorStarted == setup \in {"fixer", "spawn", "done", "fixerFailed"}

-----------------------------------------------------------------------------
Init ==
    /\ setup = "cred"
    /\ wpc = "notStarted"
    /\ zeroCount = 0
    /\ observed = 0
    /\ leases = <<>>
    /\ i = 1
    /\ j = 1
    /\ lastErr = "nil"
    /\ workerCtxDone = FALSE
    /\ watcherCancelled = FALSE
    /\ hpc = "idle"
    /\ \E sc \in StoreScenarios :
          store = [pid \in {PartitionIDs[n] : n \in 1..NumPartitions} |->
                      Blob(sc[PidIndex(pid)])]
    /\ now = StartTime
    /\ acquires = 0
    /\ idleStreak = 0
    /\ readLog = <<>>
    /\ releaseCalls = <<>>
    /\ evals = <<>>
    /\ cancelledInTick = FALSE
    /\ callsAfterCancel = 0
    /\ ticksAfterCancel = 0
    /\ sleepsAfterCancel = 0

-----------------------------------------------------------------------------
\* The setup of runWithEPH (eph.go 36-120)

\* One setup call: on success runWithEPH goes on to the next one, on an error
\* it returns the error
SetupStep(from, to, failure) ==
    /\ ~ProcessDead
    /\ setup = from
    /\ \E ok \in BOOLEAN : setup' = IF ok THEN to ELSE failure
    /\ UNCHANGED <<wvars, hvars, workerCtxDone, watcherCancelled, store, now,
                   acquires, idleStreak, passHist, cancelHist>>

\* eph.go 38-41
NewSharedKeyCredential == SetupStep("cred", "env", "failed")

\* eph.go 42-45
getAzureEnvironment == SetupStep("env", "leaser", "failed")

\* eph.go 46-50
NewStorageLeaserCheckpointer == SetupStep("leaser", "processor", "failed")

\* eph.go 54-73: eph.NewFromConnectionString, with or without a consumer group
NewFromConnectionString == SetupStep("processor", "register", "failed")

\* eph.go 75-98: the watcher context is derived and the handler registered
RegisterHandler == SetupStep("register", "start", "failed")

\* eph.go 104-108
StartNonBlocking == SetupStep("start", "fixer", "failed")

\* eph.go 110-114, lease.go 35-53
NewLeaseFixer == SetupStep("fixer", "spawn", "fixerFailed")

\* Mutant of StartWatchdog: the goroutine is launched before the lease fixer
\* is created
StartWatchdogEarly ==
    /\ ~ProcessDead
    /\ setup \in {"fixer", "spawn"}
    /\ wpc = "notStarted"
    /\ setup' = IF setup = "spawn" THEN "done" ELSE setup
    /\ wpc' = "select"
    /\ zeroCount' = 0
    /\ UNCHANGED <<observed, leases, i, j, lastErr, hvars, workerCtxDone,
                   watcherCancelled, store, now, acquires, idleStreak, passHist,
                   cancelHist>>

\* eph.go 120-121, 160-162: the go statement; runWithEPH returns nil
StartWatchdog ==
    /\ ~ProcessDead
    /\ setup = "spawn"
    /\ wpc = "notStarted"
    /\ setup' = "done"
    /\ wpc' = "select"
    /\ zeroCount' = 0
    /\ UNCHANGED <<observed, leases, i, j, lastErr, hvars, workerCtxDone,
                   watcherCancelled, store, now, acquires, idleStreak, passHist,
                   cancelHist>>

Setup ==
    \/ NewSharedKeyCredential
    \/ getAzureEnvironment
    \/ NewStorageLeaserCheckpointer
    \/ NewFromConnectionString
    \/ RegisterHandler
    \/ StartNonBlocking
    \/ NewLeaseFixer
    \/ StartWatchdog

-----------------------------------------------------------------------------
\* Pieces of the watchdog loop

Min(a, b) == IF a < b THEN a ELSE b

\* Mutant of SelectReturns: the loop never looks at its context
SelectNeverReturns == FALSE

\* Mutant of SelectReturns: the loop watches a context of its own that is not
\* derived from the worker context
SelectReturnsOwnCancelOnly == watcherCancelled

\* select { case <-watcherCtx.Done(): return; default: ... } (eph.go 123-126):
\* the Done case is taken whenever the context is done
SelectReturns == WatcherCtxDone

\* Mutant of NextZeroCount: activity does not clear the counter
NextZeroCountNoReset(c, n) == IF n = 0 THEN c + 1 ELSE c

\* eph.go 127-132: n = len(a.processor.PartitionIDsBeingProcessed())
NextZeroCount(c, n) == IF n = 0 THEN c + 1 ELSE 0

\* Mutant of ExceedsThreshold: any idle tick scans
ExceedsThresholdAnyIdle(c) == c > 0

\* Mutant of ExceedsThreshold: the scan starts one tick early
ExceedsThresholdInclusive(c) == c >= IdleThreshold

\* eph.go 133
ExceedsThreshold(c) == c > IdleThreshold

\* Mutant of IsStale: a checkpoint exactly one window old counts as stale
IsStaleInclusive(lease, t) == lease.checkpoint.enqueueTime <= t - Window

\* eph.go 143: lease.Checkpoint.EnqueueTime.Before(time.Now().Add(-30 * time.Minute)),
\* t the value of time.Now(); reached only with a non-nil Checkpoint
IsStale(lease, t) == lease.checkpoint.enqueueTime < t - Window

\* Mutant of CountAfterPass: a token mismatch is not held against the pass
CountAfterPassTokenBenign(c, err) == IF err \in {"nil", "tokenErr"} THEN 0 ELSE c

\* Mutant of CountAfterPass: the counter is never reset after a pass
CountAfterPassNoReset(c, err) == c

\* Mutant of CountAfterPass: the counter is reset after every pass, failed or not
CountAfterPassAlwaysReset(c, err) == 0

\* eph.go 151-154: zeroCount after the release loop
CountAfterPass(c, err) == IF err = "nil" THEN 0 ELSE c

\* lease.go 85-97: the StorageLease decoded from the downloaded blob
leaseFromResponse(pid) ==
    [partitionID |-> pid,
     token       |-> store[pid].token,
     state       |-> store[pid].state,
     checkpoint  |-> store[pid].checkpoint]

\* lease.go 76-83: what blobURL.Download / the decoding can return. The azblob
\* pipeline fails a request whose context is done.
getLeaseOutcomes == IF WatcherCtxDone THEN {"ctxErr"} ELSE {"ok", "ioErr"}

\* Mutant of ReleaseLeaseOutcomes: the store releases an active lease whatever
\* the id presented
ReleaseLeaseOutcomesAnyToken(lease) ==
    IF WatcherCtxDone THEN {"ctxErr"}
    ELSE IF store[lease.partitionID].state = "leased"
         THEN {"ok", "ioErr"}
         ELSE {"tokenErr", "ioErr"}

\* lease.go 70-74: what blobURL.ReleaseLease(ctx, lease.Token, ...) can return.
\* The store releases only an active lease whose id is the one presented.
ReleaseLeaseOutcomes(lease) ==
    IF WatcherCtxDone THEN {"ctxErr"}
    ELSE IF /\ store[lease.partitionID].state = "leased"
            /\ store[lease.partitionID].token = lease.token
         THEN {"ok", "ioErr"}
         ELSE {"tokenErr", "ioErr"}

\* The store after a ReleaseLease call with the given result
StoreAfterRelease(lease, out) ==
    IF out = "ok"
    THEN [store EXCEPT ![lease.partitionID].state = "available"]
    ELSE store

\* History: a store call issued by the watchdog
NoteStoreCall ==
    callsAfterCancel' = IF WatcherCtxDone
                        THEN Min(callsAfterCancel + 1, 2 * NumPartitions + 1)
                        ELSE callsAfterCancel

\* The watchdog is inside a tick: past the select and not yet at the sleep
InTick == wpc \in {"observe", "check", "getLeases", "getErr", "release"}

\* History: whether a tick is in flight when watcherCtx becomes done
NoteCancel(doneAfter) ==
    cancelledInTick' = IF ~WatcherCtxDone /\ doneAfter THEN InTick ELSE cancelledInTick

ClearPass ==
    /\ leases' = <<>>
    /\ i' = 1
    /\ j' = 1
    /\ lastErr' = "nil"
    /\ readLog' = <<>>
    /\ releaseCalls' = <<>>
    /\ evals' = <<>>

-----------------------------------------------------------------------------
\* The watchdog goroutine (eph.go 120-160)

\* eph.go 122-126: the select at the top of the loop
WSelect ==
    /\ ~ProcessDead
    /\ UNCHANGED setup
    /\ wpc = "select"
    /\ IF SelectReturns
       THEN \* return: the goroutine ends and its locals with it
            /\ wpc' = "exited"
            /\ zeroCount' = 0
            /\ observed' = 0
            /\ idleStreak' = 0
            /\ UNCHANGED ticksAfterCancel
       ELSE /\ wpc' = "observe"
            /\ ticksAfterCancel' = IF WatcherCtxDone THEN 1 ELSE ticksAfterCancel
            /\ UNCHANGED <<zeroCount, observed, idleStreak>>
    /\ UNCHANGED <<leases, i, j, lastErr, workerCtxDone,
                   watcherCancelled, hvars, store, now, acquires,
                   passHist, cancelledInTick, callsAfterCancel, sleepsAfterCancel>>

\* eph.go 127-132: read the scheduler, count or clear
WObserve ==
    /\ ~ProcessDead
    /\ UNCHANGED setup
    /\ wpc = "observe"
    /\ \E n \in 0..NumPartitions :
          /\ NextZeroCount(zeroCount, n) <= MaxZeroCount
          /\ observed' = n
          /\ zeroCount' = NextZeroCount(zeroCount, n)
          /\ idleStreak' = IF n = 0 THEN Min(idleStreak + 1, MaxZeroCount) ELSE 0
    /\ wpc' = "check"
    /\ UNCHANGED <<leases, i, j, lastErr, workerCtxDone, watcherCancelled, hvars,
                   store, now, acquires, passHist, cancelHist>>

\* eph.go 133-136: the threshold test; a scan starts with GetLeases (lease.go 56-58)
WCheckIdle ==
    /\ ~ProcessDead
    /\ UNCHANGED setup
    /\ wpc = "check"
    /\ wpc' = IF ExceedsThreshold(zeroCount) THEN "getLeases" ELSE "sleep"
    /\ UNCHANGED <<zeroCount, observed, leases, i, j, lastErr, workerCtxDone,
                   watcherCancelled, hvars, store, now, acquires, idleStreak,
                   passHist, cancelHist>>

\* Mutant of WGetLease: a failed read is skipped and the next partition is read
WGetLeaseSkipFailed ==
    /\ ~ProcessDead
    /\ UNCHANGED setup
    /\ wpc = "getLeases"
    /\ i <= NumPartitions
    /\ \E out \in getLeaseOutcomes :
          /\ readLog' = Append(readLog, out)
          /\ leases' = IF out = "ok"
                       THEN Append(leases, leaseFromResponse(PartitionIDs[i]))
                       ELSE leases
    /\ i' = i + 1
    /\ wpc' = IF i = NumPartitions THEN "release" ELSE "getLeases"
    /\ NoteStoreCall
    /\ UNCHANGED <<zeroCount, observed, j, lastErr, workerCtxDone, watcherCancelled,
                   hvars, store, now, acquires, idleStreak, releaseCalls, evals,
                   cancelledInTick, ticksAfterCancel, sleepsAfterCancel>>

\* lease.go 59-66: one iteration of GetLeases, with getLease (lease.go 76-83);
\* after the last one GetLeases returns and the release loop starts (eph.go 139-141)
WGetLease ==
    /\ ~ProcessDead
    /\ UNCHANGED setup
    /\ wpc = "getLeases"
    /\ i <= NumPartitions
    /\ \E out \in getLeaseOutcomes :
          /\ readLog' = Append(readLog, out)
          /\ IF out = "ok"
             THEN /\ leases' = Append(leases, leaseFromResponse(PartitionIDs[i]))
                  /\ i' = i + 1
                  /\ wpc' = IF i = NumPartitions THEN "release" ELSE "getLeases"
             ELSE /\ leases' = <<>>
                  /\ i' = i
                  /\ wpc' = "getErr"
    /\ NoteStoreCall
    /\ UNCHANGED <<zeroCount, observed, j, lastErr, workerCtxDone, watcherCancelled,
                   hvars, store, now, acquires, idleStreak, releaseCalls, evals,
                   cancelledInTick, ticksAfterCancel, sleepsAfterCancel>>

\* eph.go 137-138: GetLeases returned an error; it is logged and the tick goes on to the sleep
WGetLeasesFailed ==
    /\ ~ProcessDead
    /\ UNCHANGED setup
    /\ wpc = "getErr"
    /\ wpc' = "sleep"
    /\ ClearPass
    /\ UNCHANGED <<zeroCount, observed, workerCtxDone, watcherCancelled, hvars,
                   store, now, acquires, idleStreak, cancelHist>>

\* Mutant of WEvalLease: the loop is left at the first release that fails
WEvalLeaseBreakOnError ==
    /\ ~ProcessDead
    /\ UNCHANGED setup
    /\ wpc = "release"
    /\ j <= Len(leases)
    /\ LET lease == leases[j] IN
       IF ~lease.checkpoint.present
       THEN /\ wpc' = "panicked"
            /\ UNCHANGED <<j, lastErr, store, releaseCalls, evals, callsAfterCancel>>
       ELSE IF IsStale(lease, now)
       THEN \E out \in ReleaseLeaseOutcomes(lease) :
               /\ releaseCalls' = Append(releaseCalls,
                     [partitionID |-> lease.partitionID, token |-> lease.token,
                      result |-> out])
               /\ store' = StoreAfterRelease(lease, out)
               /\ lastErr' = IF out = "ok" THEN lastErr ELSE out
               /\ evals' = Append(evals, [now |-> now, stale |-> TRUE])
               /\ j' = IF out = "ok" THEN j + 1 ELSE Len(leases) + 1
               /\ NoteStoreCall
               /\ UNCHANGED wpc
       ELSE /\ evals' = Append(evals, [now |-> now, stale |-> FALSE])
            /\ j' = j + 1
            /\ UNCHANGED <<wpc, lastErr, store, releaseCalls, callsAfterCancel>>
    /\ UNCHANGED <<zeroCount, observed, leases, i, workerCtxDone, watcherCancelled,
                   hvars, now, acquires, idleStreak, readLog, cancelledInTick,
                   ticksAfterCancel, sleepsAfterCancel>>

\* eph.go 141-149: one iteration of the range loop over the leases
WEvalLease ==
    /\ ~ProcessDead
    /\ UNCHANGED setup
    /\ wpc = "release"
    /\ j <= Len(leases)
    /\ LET lease == leases[j] IN
       IF ~lease.checkpoint.present
       THEN \* lease.Checkpoint is nil: lease.Checkpoint.EnqueueTime is a nil pointer
            \* dereference, a runtime panic the goroutine does not recover from
            /\ wpc' = "panicked"
            /\ UNCHANGED <<j, lastErr, store, releaseCalls, evals, callsAfterCancel>>
       ELSE IF IsStale(lease, now)
       THEN \E out \in ReleaseLeaseOutcomes(lease) :
               /\ releaseCalls' = Append(releaseCalls,
                     [partitionID |-> lease.partitionID, token |-> lease.token,
                      result |-> out])
               /\ store' = StoreAfterRelease(lease, out)
               /\ lastErr' = IF out = "ok" THEN lastErr ELSE out
               /\ evals' = Append(evals, [now |-> now, stale |-> TRUE])
               /\ j' = j + 1
               /\ NoteStoreCall
               /\ UNCHANGED wpc
       ELSE /\ evals' = Append(evals, [now |-> now, stale |-> FALSE])
            /\ j' = j + 1
            /\ UNCHANGED <<wpc, lastErr, store, releaseCalls, callsAfterCancel>>
    /\ UNCHANGED <<zeroCount, observed, leases, i, workerCtxDone, watcherCancelled,
                   hvars, now, acquires, idleStreak, readLog, cancelledInTick,
                   ticksAfterCancel, sleepsAfterCancel>>

\* eph.go 151-154: after the loop, the counter is reset if no release failed
WEndPass ==
    /\ ~ProcessDead
    /\ UNCHANGED setup
    /\ wpc = "release"
    /\ j > Len(leases)
    /\ zeroCount' = CountAfterPass(zeroCount, lastErr)
    /\ idleStreak' = IF lastErr = "nil" THEN 0 ELSE idleStreak
    /\ wpc' = "sleep"
    /\ ClearPass
    /\ UNCHANGED <<observed, workerCtxDone, watcherCancelled, hvars, store, now,
                   acquires, cancelHist>>

\* eph.go 157: time.Sleep(1 * time.Second), then back to the select
WSleep ==
    /\ ~ProcessDead
    /\ UNCHANGED setup
    /\ wpc = "sleep"
    /\ wpc' = "select"
    /\ sleepsAfterCancel' = IF WatcherCtxDone THEN Min(sleepsAfterCancel + 1, 2)
                            ELSE sleepsAfterCancel
    /\ UNCHANGED <<zeroCount, observed, leases, i, j, lastErr, workerCtxDone,
                   watcherCancelled, hvars, store, now, acquires, idleStreak,
                   passHist, cancelledInTick, callsAfterCancel, ticksAfterCancel>>

Watchdog ==
    \/ WSelect
    \/ WObserve
    \/ WCheckIdle
    \/ WGetLease
    \/ WGetLeasesFailed
    \/ WEvalLease
    \/ WEndPass
    \/ WSleep

-----------------------------------------------------------------------------
\* The event handler (eph.go 78-94)

\* Mutant of HandlerOk: a successful callback cancels the watcher context
HandlerOkCancels ==
    /\ ~ProcessDead
    /\ UNCHANGED setup
    /\ ProcessorStarted
    /\ hpc \in {"idle", "returned"}
    /\ hpc' = "returned"
    /\ watcherCancelled' = TRUE
    /\ UNCHANGED <<wvars, workerCtxDone, store, now,
                   acquires, idleStreak, passHist, cancelHist>>

\* eph.go 81, 93: processEvents returned true; the callback returns nil
HandlerOk ==
    /\ ~ProcessDead
    /\ UNCHANGED setup
    /\ ProcessorStarted
    /\ hpc \in {"idle", "returned"}
    /\ hpc' = "returned"
    /\ UNCHANGED <<wvars, workerCtxDone, watcherCancelled, store, now,
                   acquires, idleStreak, passHist, cancelHist>>

\* eph.go 81-84: processEvents returned false; the error is built and logged
HandlerFail ==
    /\ ~ProcessDead
    /\ UNCHANGED setup
    /\ ProcessorStarted
    /\ hpc \in {"idle", "returned"}
    /\ hpc' = "logged"
    /\ UNCHANGED <<wvars, workerCtxDone, watcherCancelled, store,
                   now, acquires, idleStreak, passHist, cancelHist>>

\* a.Stop() (eph.go 85). Stop is defined outside these files: it initiates the
\* consumer's shutdown, which may cancel the shared worker context.
Stop(cancelsWorker) ==
    /\ workerCtxDone' = (workerCtxDone \/ cancelsWorker)
    /\ NoteCancel(cancelsWorker)

\* eph.go 85
HandlerStop ==
    /\ ~ProcessDead
    /\ UNCHANGED setup
    /\ hpc = "logged"
    /\ hpc' = "stopped"
    /\ \E c \in BOOLEAN : Stop(c)
    /\ UNCHANGED <<wvars, watcherCancelled, store, now, acquires,
                   idleStreak, passHist, callsAfterCancel, ticksAfterCancel,
                   sleepsAfterCancel>>

\* eph.go 90: cancelWatcher()
HandlerCancel ==
    /\ ~ProcessDead
    /\ UNCHANGED setup
    /\ hpc = "stopped"
    /\ hpc' = "cancelled"
    /\ watcherCancelled' = TRUE
    /\ NoteCancel(TRUE)
    /\ UNCHANGED <<wvars, workerCtxDone, store, now, acquires,
                   idleStreak, passHist, callsAfterCancel, ticksAfterCancel,
                   sleepsAfterCancel>>

\* Mutant of HandlerPanic: the panic comes before cancelWatcher()
HandlerPanicBeforeCancel ==
    /\ ~ProcessDead
    /\ UNCHANGED setup
    /\ hpc \in {"stopped", "cancelled"}
    /\ hpc' = "panicked"
    /\ wpc' = "killed"
    /\ zeroCount' = 0
    /\ observed' = 0
    /\ idleStreak' = 0
    /\ ClearPass
    /\ UNCHANGED <<workerCtxDone, watcherCancelled, store, now, acquires,
                   cancelHist>>

\* eph.go 91: panic(onEventErr); nothing recovers it and the process ends
HandlerPanic ==
    /\ ~ProcessDead
    /\ UNCHANGED setup
    /\ hpc = "cancelled"
    /\ hpc' = "panicked"
    \* the process ends, and the watchdog goroutine and its locals with it
    /\ wpc' = "killed"
    /\ zeroCount' = 0
    /\ observed' = 0
    /\ idleStreak' = 0
    /\ ClearPass
    /\ UNCHANGED <<workerCtxDone, watcherCancelled, store, now, acquires,
                   cancelHist>>

Handler ==
    \/ HandlerOk
    \/ HandlerFail
    \/ HandlerStop
    \/ HandlerCancel
    \/ HandlerPanic

-----------------------------------------------------------------------------
\* The environment

\* a.workerCtx (eph.go 56, 75) is cancelled from outside runWithEPH
WorkerCtxCancel ==
    /\ ~ProcessDead
    /\ UNCHANGED setup
    /\ ~workerCtxDone
    /\ workerCtxDone' = TRUE
    /\ NoteCancel(TRUE)
    /\ UNCHANGED <<wvars, hvars, watcherCancelled, store, now, acquires,
                   idleStreak, passHist, callsAfterCancel, ticksAfterCancel,
                   sleepsAfterCancel>>

\* time.Now() (eph.go 143) moves on
ClockAdvance ==
    /\ ~ProcessDead
    /\ UNCHANGED setup
    /\ now < StartTime + MaxClockAdvance
    /\ now' = now + 1
    /\ UNCHANGED <<wvars, hvars, workerCtxDone, watcherCancelled, store, acquires,
                   idleStreak, passHist, cancelHist>>

\* Another consumer acquires the lease of a partition: the blob gets a new lease
\* id, written to its body as the token
OtherAcquire ==
    /\ ~ProcessDead
    /\ UNCHANGED setup
    /\ acquires < MaxAcquires
    /\ \E n \in 1..NumPartitions :
          store' = [store EXCEPT ![PartitionIDs[n]].token = @ + 1,
                                 ![PartitionIDs[n]].state = "leased"]
    /\ acquires' = acquires + 1
    /\ UNCHANGED <<wvars, hvars, workerCtxDone, watcherCancelled, now, idleStreak,
                   passHist, cancelHist>>

Environment ==
    \/ WorkerCtxCancel
    \/ ClockAdvance
    \/ OtherAcquire

-----------------------------------------------------------------------------
Next ==
    \/ Setup
    \/ Watchdog
    \/ Handler
    \/ Environment

Spec == Init /\ [][Next]_vars

\* The Go scheduler keeps running the watchdog goroutine, and its store calls
\* and its sleep return
FairSpec == Spec /\ WF_vars(Watchdog)

-----------------------------------------------------------------------------
\* Properties

\* A scan pass of the current tick is under way (GetLeases, its error branch,
\* the release loop)
InScan == wpc \in {"getLeases", "getErr", "release"}

\* The release loop of the current pass has gone through every lease
PassComplete == wpc = "release" /\ j > Len(leases)

\* C1: a tick scans the store only if the idle counter strictly exceeds the
\* threshold on that tick, and then the tick and at least the 60 ticks before it
\* all observed zero partitions, with no active tick and no counter reset in between.
C1_ScanOnlyPastThreshold ==
    InScan => /\ zeroCount > IdleThreshold
              /\ idleStreak > IdleThreshold

\* C1 witness: the first scan, on the 61st consecutive idle tick
C1_Witness ==
    /\ wpc = "getLeases"
    /\ readLog = <<>>
    /\ zeroCount = IdleThreshold + 1
    /\ idleStreak = IdleThreshold + 1

\* C2: the observation step of a tick leaves the counter at 0 when at least one
\* partition is being processed, whatever it was before, and adds exactly 1 to
\* it when none is.
C2_ObservationStep ==
    [][ (wpc = "observe" /\ wpc' = "check") =>
            /\ (observed' > 0 => zeroCount' = 0)
            /\ (observed' = 0 => zeroCount' = zeroCount + 1) ]_vars

\* C2 witness: an active tick has just cleared the counter
C2_Witness ==
    /\ wpc = "check"
    /\ observed > 0
    /\ zeroCount = 0

\* The release calls of this pass that failed
FailedReleases == {k \in 1..Len(releaseCalls) : releaseCalls[k].result # "ok"}

\* The step that ends the release loop (eph.go 151-154)
EndPassStep == wpc = "release" /\ wpc' = "sleep"

ScanOver == wpc = "getErr" \/ PassComplete

OkReads == {k \in 1..Len(readLog) : readLog[k] = "ok"}

CallsFor(k) ==
    {c \in 1..Len(releaseCalls) :
        /\ releaseCalls[c].partitionID = leases[k].partitionID
        /\ releaseCalls[c].token = leases[k].token}

\* C5 (as claimed): a record read without a checkpoint is never released, and
\* evaluating it neither fails nor stops the watchdog.
C5_NoCheckpointIsHarmless ==
    /\ wpc # "panicked"
    /\ \A k \in 1..Len(leases) : ~leases[k].checkpoint.present => CallsFor(k) = {}

\* C6: for a record with a checkpoint the verdict is: stale iff
\* now - enqueueTime > window, strictly; so a checkpoint of now and one exactly
\* a window old are not stale, and anything older is.
C6_StaleIffOlderThanWindow ==
    \A k \in 1..Len(evals) :
        LET age == evals[k].now - leases[k].checkpoint.enqueueTime IN
        /\ evals[k].stale <=> age > Window
        /\ age = 0 => ~evals[k].stale
        /\ age = Window => ~evals[k].stale

\* C6 witness: a pass has judged a checkpoint exactly one window old and one of
\* "now", both not stale
C6_Witness ==
    /\ PassComplete
    /\ Len(evals) = 2
    /\ evals[1].now - leases[1].checkpoint.enqueueTime = Window
    /\ ~evals[1].stale
    /\ evals[2].now = leases[2].checkpoint.enqueueTime
    /\ ~evals[2].stale

\* The k-th lease of the snapshot is stale: by the clock read when it was
\* evaluated, or by the present clock when the loop did not get to it
StaleRecord(k) ==
    /\ leases[k].checkpoint.present
    /\ (IF k <= Len(evals) THEN evals[k].now ELSE now)
          - leases[k].checkpoint.enqueueTime > Window

\* The watchdog's pass has ended: the loop is through, or the goroutine panicked in it
PassEnded == PassComplete \/ wpc = "panicked"

\* C7 (as claimed): in a pass whose reads succeeded, the release calls are
\* exactly one per stale record, with the partition and token read in this pass,
\* and none for any other record.
C7_ReleasesExactlyTheStale ==
    PassEnded =>
        /\ \A k \in 1..Len(leases) :
              Cardinality(CallsFor(k)) = IF StaleRecord(k) THEN 1 ELSE 0
        /\ \A c \in 1..Len(releaseCalls) : \E k \in 1..Len(leases) : c \in CallsFor(k)

\* C8: a pass that ends with no error, with or without a release, resets the
\* counter to 0 on that tick, and a scan starts only after more than 60 idle
\* ticks counted from the last clean pass (or active tick).
C8_CleanPassRearms ==
    /\ [][ (EndPassStep /\ lastErr = "nil") => zeroCount' = 0 ]_vars
    /\ [][ (wpc = "check" /\ wpc' = "getLeases") => idleStreak > IdleThreshold ]_vars

\* C8 witness: a clean pass that released nothing has just reset the counter
\* (no release has ever succeeded, no lease has changed hands)
C8_Witness ==
    /\ wpc = "sleep"
    /\ zeroCount = 0
    /\ observed = 0
    /\ \A n \in 1..NumPartitions :
          /\ store[PartitionIDs[n]].state = "leased"
          /\ store[PartitionIDs[n]].token = 1

\* C9 (as claimed): a fatal callback failure cancels the watchdog's context, and
\* once it is cancelled the watchdog issues no store call, also when the
\* cancellation arrives during a pass.
C9_NoStoreCallAfterCancel ==
    /\ hpc \in {"cancelled", "panicked"} => WatcherCtxDone
    /\ callsAfterCancel = 0

\* C9 (amended): a fatal callback failure cancels the watchdog's context; once
\* it is cancelled no new tick starts, so the only store calls issued afterwards
\* are those left in the tick that was in flight at the cancellation (at most
\* one read and one release per partition).
C9_OnlyInFlightTickCallsAfterCancel ==
    /\ hpc \in {"cancelled", "panicked"} => WatcherCtxDone
    /\ ticksAfterCancel = 0
    /\ callsAfterCancel > 0 => cancelledInTick
    /\ callsAfterCancel <= 2 * NumPartitions

\* C9 witness: the handler has cancelled the context and the pass in flight
\* went on to issue a store call
C9_Witness ==
    /\ hpc = "cancelled"
    /\ callsAfterCancel > 0
    /\ InScan

\* The watchdog loop is no longer running
WatchdogGone == wpc \in {"exited", "panicked"} \/ hpc = "panicked"

\* C10: once the watchdog's context is done, by cancelWatcher or through the
\* worker context, the loop eventually exits; no tick begins after the
\* cancellation and at most one poll wait completes after it.
C10_CancelledWatchdogExits ==
    /\ (WatcherCtxDone /\ wpc # "notStarted") ~> WatchdogGone
    /\ [](ticksAfterCancel = 0 /\ sleepsAfterCancel <= 1)

\* C10 witness: cancelled through the worker context during a tick, the loop
\* finished the tick, slept once and exited
C10_Witness ==
    /\ wpc = "exited"
    /\ workerCtxDone
    /\ ~watcherCancelled
    /\ cancelledInTick
    /\ sleepsAfterCancel = 1

\* C11 (as claimed): the watchdog loop never stops on its own: while its context
\* is not cancelled (and the handler has not ended the process) the loop is
\* still running, whatever happened to single partitions.
C11_LoopStopsOnlyOnCancel ==
    (~WatcherCtxDone /\ hpc # "panicked") => wpc \notin {"exited", "panicked"}

\* The handler's position moves along the fatal path one step at a time
HandlerStepInOrder ==
    \/ hpc' = hpc
    \/ hpc \in {"idle", "returned"} /\ hpc' \in {"returned", "logged"}
    \/ hpc = "logged" /\ hpc' = "stopped"
    \/ hpc = "stopped" /\ hpc' = "cancelled"
    \/ hpc = "cancelled" /\ hpc' = "panicked"

\* C12: on a fatal callback failure the steps come in the order log, Stop,
\* cancelWatcher, panic, so the process is never ended by the handler without
\* the watchdog's context having been cancelled first; a callback that
\* processed its event returns nil and takes none of these steps.
C12_FatalPathInOrder ==
    /\ [][HandlerStepInOrder]_vars
    /\ [](hpc = "panicked" => watcherCancelled)
    /\ [](hpc \in {"idle", "returned", "logged", "stopped"} => ~watcherCancelled)
    /\ [][ (hpc = "idle" /\ hpc' = "returned") =>
              UNCHANGED <<workerCtxDone, watcherCancelled, wvars>> ]_vars

\* C12 witness: the handler has gone through the whole fatal path
C12_Witness ==
    /\ hpc = "panicked"
    /\ watcherCancelled
    /\ wpc = "killed"

\* C13: a pass that ends with an error (GetLeases failed, or a release did)
\* leaves the counter as it is and goes to the sleep without retrying; the
\* next idle observation raises the counter further, and a tick whose counter
\* is past the threshold scans, so the very next idle tick scans again.
C13_FailedPassRescansNextTick ==
    /\ [][ (EndPassStep /\ lastErr # "nil") => zeroCount' = zeroCount ]_vars
    /\ [][ (wpc = "getErr" /\ wpc' \notin {"getErr", "killed"}) =>
              (wpc' = "sleep" /\ zeroCount' = zeroCount) ]_vars
    /\ [][ (wpc = "observe" /\ wpc' = "check" /\ observed' = 0) =>
              zeroCount' > zeroCount ]_vars
    /\ [][ (wpc = "check" /\ zeroCount > IdleThreshold /\ wpc' \notin {"check", "killed"}) =>
              wpc' = "getLeases" ]_vars

\* C13 witness: the tick after a failed pass was idle and starts a scan of its own
C13_Witness ==
    /\ wpc = "getLeases"
    /\ readLog = <<>>
    /\ zeroCount = IdleThreshold + 2

\* The step is a ReleaseLease call that returned an error
FailedReleaseStep ==
    /\ wpc = "release"
    /\ Len(releaseCalls') = Len(releaseCalls) + 1
    /\ releaseCalls'[Len(releaseCalls')].result # "ok"

\* C14: a release that fails does not end the release loop: the loop goes on
\* to the next lease, and when it is through every stale record of the
\* snapshot has had its release call, wherever the failing one stood.
C14_FailedReleaseDoesNotStopPass ==
    /\ [][ FailedReleaseStep => (wpc' = "release" /\ j' = j + 1) ]_vars
    /\ [](PassComplete => \A k \in 1..Len(leases) : StaleRecord(k) => CallsFor(k) # {})

\* C14 witness: the first of two releases failed and the second was still issued
C14_Witness ==
    /\ PassComplete
    /\ Len(releaseCalls) = 2
    /\ releaseCalls[1].result # "ok"
    /\ releaseCalls[1].partitionID # releaseCalls[2].partitionID

\* The step is a ReleaseLease call of the watchdog
ReleaseStep ==
    /\ wpc = "release"
    /\ Len(releaseCalls') = Len(releaseCalls) + 1

\* The call made by a ReleaseStep
ThisRelease == releaseCalls'[Len(releaseCalls')]

\* C15: a release presents the token of the snapshot and succeeds only if the
\* stored lease is still held under that token; if the lease was re-acquired
\* or released since the read, the call fails and the store, with the new
\* owner's lease, is left as it was. No other partition's record is touched.
C15_ReleaseOnlyUnderReadToken ==
    [][ ReleaseStep =>
          LET pid == ThisRelease.partitionID IN
            /\ pid = leases[j].partitionID
            /\ ThisRelease.token = leases[j].token
            /\ ThisRelease.result = "ok" =>
                  /\ store[pid].token = leases[j].token
                  /\ store[pid].state = "leased"
            /\ (store[pid].token # leases[j].token \/ store[pid].state # "leased") =>
                  /\ ThisRelease.result # "ok"
                  /\ store' = store
            /\ \A q \in DOMAIN store : q # pid => store'[q] = store[q] ]_vars

\* C15 witness: the lease was re-acquired between read and release; the release
\* failed on the token and the new owner still holds the lease
C15_Witness ==
    /\ wpc = "release"
    /\ \E k \in 1..Len(releaseCalls) :
          LET pid == releaseCalls[k].partitionID IN
            /\ releaseCalls[k].result = "tokenErr"
            /\ store[pid].state = "leased"
            /\ store[pid].token = releaseCalls[k].token + 1
            /\ acquires = 1

\* The step is one of the watchdog goroutine
WatchdogStep == wvars' # wvars /\ wpc' # "killed"

\* C16: the lease store changes only by another consumer's acquisition or by
\* a successful release call of a scan pass, which happens only with the
\* counter past the threshold; a tick at or below the threshold goes to the
\* sleep with the store as it was, a lease read changes no record, and no
\* step of the watchdog touches the handler, the contexts or the other
\* consumers.
C16_StoreChangesOnlyByRelease ==
    /\ [][ store' # store =>
              \/ acquires' # acquires
              \/ /\ ReleaseStep
                 /\ ThisRelease.result = "ok"
                 /\ zeroCount > IdleThreshold ]_vars
    /\ [][ (WatchdogStep /\ wpc = "check" /\ zeroCount <= IdleThreshold) =>
              (wpc' = "sleep" /\ store' = store) ]_vars
    /\ [][ (WatchdogStep /\ wpc = "getLeases") => store' = store ]_vars
    /\ [][ WatchdogStep =>
              UNCHANGED <<hpc, workerCtxDone, watcherCancelled, acquires, now>> ]_vars

\* C16 witness: a release of a scan pass has changed the store, and nobody else has
C16_Witness ==
    /\ wpc = "release"
    /\ acquires = 0
    /\ zeroCount > IdleThreshold
    /\ \E k \in 1..Len(releaseCalls) :
          /\ releaseCalls[k].result = "ok"
          /\ store[releaseCalls[k].partitionID].state = "available"

\* C17: watcherCtx becomes done only by the cancelWatcher of the failing
\* callback (eph.go 90) or by the cancellation of the parent worker context;
\* the step that does it is none of the watchdog's, and a callback that
\* succeeded never did it.
C17_OnlyFailureOrParentCancels ==
    /\ [][ (~WatcherCtxDone /\ WatcherCtxDone') =>
              /\ \/ hpc = "stopped" /\ hpc' = "cancelled"
                 \/ ~workerCtxDone /\ workerCtxDone'
              /\ wvars' = wvars ]_vars
    /\ [][ (~watcherCancelled /\ watcherCancelled') =>
              (hpc = "stopped" /\ hpc' = "cancelled") ]_vars
    /\ [](watcherCancelled => hpc \in {"cancelled", "panicked"})

\* C17 witness: the failing callback has cancelled the watcher context while
\* the parent context is live and a pass with a store error is under way
C17_Witness ==
    /\ hpc = "cancelled"
    /\ watcherCancelled
    /\ ~workerCtxDone
    /\ wpc = "release"
    /\ lastErr = "ioErr"

\* The setup calls succeed one after the other, in the order of the code
SetupStepInOrder ==
    <<setup, setup'>> \in
        { <<"cred", "env">>, <<"env", "leaser">>, <<"leaser", "processor">>,
          <<"processor", "register">>, <<"register", "start">>,
          <<"start", "fixer">>, <<"fixer", "spawn">>, <<"spawn", "done">> }

\* C18: the watchdog goroutine exists only once every setup call of
\* runWithEPH has succeeded, in the order credential .. processor, handler,
\* start, lease fixer; a setup call that fails makes runWithEPH return, for
\* good and without a watchdog, and as long as there is no watchdog no lease
\* is read or released by this program.
C18_WatchdogOnlyAfterSetup ==
    /\ [](wpc \notin {"notStarted", "killed"} => setup = "done")
    /\ [](setup \in {"failed", "fixerFailed"} => wpc \in {"notStarted", "killed"})
    /\ [][ setup' # setup =>
              \/ SetupStepInOrder
              \/ setup # "done" /\ setup' \in {"failed", "fixerFailed"} ]_vars
    /\ [][ wpc = "notStarted" /\ wpc' # "killed" =>
              \/ wpc' = "notStarted"
              \/ setup = "spawn" /\ setup' = "done" /\ wpc' = "select" ]_vars
    /\ [][ setup # "done" =>
              /\ readLog' = readLog
              /\ releaseCalls' = releaseCalls
              /\ (store' # store => acquires' # acquires) ]_vars

\* C18 witness: the processor was started and has handled events, then
\* NewLeaseFixer failed: runWithEPH has returned and there is no watchdog
C18_Witness ==
    /\ setup = "fixerFailed"
    /\ hpc = "returned"
    /\ wpc = "notStarted"
    /\ readLog = <<>>
    /\ releaseCalls = <<>>

====
